---------------------------- MODULE Spec2Model ----------------------------
(***************************************************************************)
(* Webhook dispatch and control-flag state machine of app/core.py.         *)
(*                                                                         *)
(* Python strings that the code trims, lower-cases or concatenates are     *)
(* modelled as sequences of one-character strings, so that str.strip(),    *)
(* str.lower() and the comparison with "alpha off" / "alpha on" are        *)
(* computed, not assumed.  Chat guids are opaque and stay TLA+ strings.    *)
(*                                                                         *)
(* One webhook delivery is one Deliver step (the whole of post_webhook,    *)
(* with every call it makes); Complete ends the request and discards its   *)
(* locals.  The outcome of every outbound call (bridge send, mark-as-read, *)
(* Gemini) is chosen nondeterministically at the point the code makes it.  *)
(***************************************************************************)
EXTENDS Naturals, Sequences, FiniteSets

VARIABLES
    processing_active,  \* app.state.webhook.processing_active
    env,                \* settings.env, fixed for the life of the process
    pc,                 \* "idle": no request in progress; "done": a delivery was handled
    payload,            \* the body of the delivery last handled
    calls,              \* outbound calls of that delivery, in program order
    logs,               \* log records of that delivery, in program order
    response,           \* what the endpoint answered
    last_command,       \* history: the last control command handled, if any
    active_on_entry,    \* history: processing_active when the delivery began
    last_ack,           \* history: how the last command's acknowledgement send went
    workers             \* the threadpool's threads, when deliveries overlap

vars ==
    <<processing_active, env, pc, payload, calls, logs, response, last_command,
      active_on_entry, last_ack, workers>>

---------------------------------------------------------------------------
(* Bounds of the model *)

\* longest chat list of a new-message payload
MaxChats == 2

\* most blanks put before, and after, a message text
MaxPad == 1

---------------------------------------------------------------------------
(* Strings *)

Upper == <<"A", "B", "C", "D", "E", "F", "G", "H", "I", "J", "K", "L", "M",
           "N", "O", "P", "Q", "R", "S", "T", "U", "V", "W", "X", "Y", "Z">>

LowerLetters == <<"a", "b", "c", "d", "e", "f", "g", "h", "i", "j", "k", "l", "m",
                  "n", "o", "p", "q", "r", "s", "t", "u", "v", "w", "x", "y", "z">>

\* the characters str.strip() removes (those that occur in the model)
Whitespace == {" ", "\t", "\n"}

LowerChar(c) ==
    IF \E i \in 1..Len(Upper) : Upper[i] = c
    THEN LowerLetters[CHOOSE i \in 1..Len(Upper) : Upper[i] = c]
    ELSE c

\* str.lower()
str_lower(s) == [i \in 1..Len(s) |-> LowerChar(s[i])]

RECURSIVE str_lstrip(_)
str_lstrip(s) ==
    IF s # <<>> /\ Head(s) \in Whitespace THEN str_lstrip(Tail(s)) ELSE s

RECURSIVE str_rstrip(_)
str_rstrip(s) ==
    IF s # <<>> /\ s[Len(s)] \in Whitespace
    THEN str_rstrip(SubSeq(s, 1, Len(s) - 1))
    ELSE s

\* str.strip()
str_strip(s) == str_rstrip(str_lstrip(s))

AlphaOff == <<"a", "l", "p", "h", "a", " ", "o", "f", "f">>

AlphaOn == <<"a", "l", "p", "h", "a", " ", "o", "n">>

MsgDisabled ==
    <<"W", "e", "b", "h", "o", "o", "k", " ", "p", "r", "o", "c", "e", "s", "s",
      "i", "n", "g", " ", "d", "i", "s", "a", "b", "l", "e", "d">>

MsgEnabled ==
    <<"W", "e", "b", "h", "o", "o", "k", " ", "p", "r", "o", "c", "e", "s", "s",
      "i", "n", "g", " ", "e", "n", "a", "b", "l", "e", "d">>

SorryPrefix ==
    <<"S", "o", "r", "r", "y", ",", " ", "I", " ", "e", "n", "c", "o", "u", "n",
      "t", "e", "r", "e", "d", " ", "a", "n", " ", "e", "r", "r", "o", "r", ":",
      "\n", "\n">>

NoTextMsg ==
    <<"N", "o", " ", "t", "e", "x", "t", " ", "r", "e", "t", "u", "r", "n", "e",
      "d", " ", "f", "r", "o", "m", " ", "G", "e", "m", "i", "n", "i">>

Production == "production"

---------------------------------------------------------------------------
(* Inputs: what the bridge, the bridge's HTTP API and Gemini can hand us *)

Envs == {Production, "development"}

Guids == {"X", "Y"}

Pad(n) == [i \in 1..n |-> " "]

Words ==
    { <<>>,
      <<"H", "e", "l", "l", "o">>,
      AlphaOff,
      <<"A", "L", "P", "H", "A", " ", "O", "F", "F">>,
      <<"A", "l", "p", "h", "a", " ", "O", "n">>,
      <<"a", "l", "p", "h", "a", " ", " ", "o", "f", "f">>,
      <<"a", "l", "p", "h", "a", " ", "o", "f", "f", " ", "n", "o", "w">>,
      <<"\t", "a", "l", "p", "h", "a", " ", "o", "n", "\n">> }

Texts == { Pad(l) \o w \o Pad(r) : w \in Words, l \in 0..MaxPad, r \in 0..MaxPad }

\* Message.chats: list[Chat] | None; a Chat is modelled by its guid
ChatLists == UNION { [1..n -> Guids] : n \in 0..MaxChats }

ChatsValues ==
    { [is_none |-> TRUE, items |-> <<>>] }
        \cup { [is_none |-> FALSE, items |-> l] : l \in ChatLists }

WebhookNewMessage ==
    [ type : {"new-message"}, text : Texts, is_from_me : BOOLEAN, chats : ChatsValues ]

WebhookUpdatedMessage ==
    [ type : {"updated-message"}, text : {<<"H", "e", "l", "l", "o">>, AlphaOff},
      is_from_me : BOOLEAN ]

WebhookTypingIndicator ==
    [ type : {"typing-indicator"}, display : BOOLEAN, guid : Guids ]

WebhookChatReadStatusChanged ==
    [ type : {"chat-read-status-changed"}, chat_guid : Guids, read : BOOLEAN ]

\* the bodies the discriminated union of post_webhook accepts
Payloads ==
    WebhookNewMessage \cup WebhookUpdatedMessage
        \cup WebhookTypingIndicator \cup WebhookChatReadStatusChanged

\* bodies whose "type" is none of the four
InvalidBodies == [ type : {"message-send-error", "group-name-change"} ]

NoPayload == [ type |-> "none" ]

\* variant: the body's type is not checked
accepts_any(body) == TRUE

\* the discriminated union of post_webhook's `payload` parameter: the body's
\* "type" selects one of the four models
accepts(body) ==
    body.type \in {"new-message", "typing-indicator", "updated-message",
                   "chat-read-status-changed"}

\* httpx: the request fails in transport, or the bridge answers 4xx/5xx
SendOutcomes == {"ok", "RequestError", "HTTPStatusError"}

\* httpx.post without raise_for_status: an error status is a normal return
MarkOutcomes == {"ok", "error_status", "RequestError"}

NoneText == [is_none |-> TRUE, text |-> <<>>]

Some(t) == [is_none |-> FALSE, text |-> t]

\* GenerateContentResponse.text
GeminiTexts ==
    { NoneText, Some(<<>>), Some(<<" ">>), Some(<<"H", "i">>),
      Some(<<" ", "H", "i", "\n">>) }

\* str(exc) of the failures the collaborators raise
ExcStr(exc) ==
    CASE exc = "RequestError" -> <<"t", "i", "m", "e", "d", " ", "o", "u", "t">>
      [] exc = "HTTPStatusError" -> <<"5", "0", "3">>
      [] exc = "APIError" -> <<"q", "u", "o", "t", "a">>
      [] exc = "ValueError" -> NoTextMsg

---------------------------------------------------------------------------
(* Outbound collaborators.  Each returns the set of ways the call can go:  *)
(* the call as the collaborator saw it, and the log records it wrote.      *)

Call(op, chat_guid, message, outcome, gemini, returns) ==
    [ site |-> 0, op |-> op, chat_guid |-> chat_guid, message |-> message,
      outcome |-> outcome, gemini |-> gemini, returns |-> returns ]

\* the call, made from line `site` of core.py
At(site, r) == [r EXCEPT !.call.site = site]

\* the call ended in an exception
Raised(call) == call.outcome \notin {"ok", "error_status"}

\* MessageClient.send_text: POST /message/text, raise_for_status, re-raise
send_text(chat_guid, message) ==
    { [ call |-> Call("send_text", chat_guid, message, o, NoneText, NoneText),
        logs |-> <<"Sending message to BlueBubbles",
                   IF o = "ok" THEN "Message sent"
                   ELSE "Sending message to BlueBubbles failed">> ]
      : o \in SendOutcomes }

\* mark_as_read: POST /chat/<guid>/read; the response's status is not looked at
mark_as_read(chat_guid) ==
    { [ call |-> Call("mark_as_read", chat_guid, <<>>, o, NoneText, NoneText),
        logs |-> IF o = "RequestError" THEN <<>> ELSE <<"Chat marked as read">> ]
      : o \in MarkOutcomes }

\* generate_reply: one generate_content call; no text raises ValueError,
\* otherwise the text is stripped and returned
generate_reply(message) ==
    { [ call |-> Call("generate_reply", "", message, "APIError", NoneText, NoneText),
        logs |-> <<>> ] }
    \cup
    { IF t.is_none \/ t.text = <<>>
      THEN [ call |-> Call("generate_reply", "", message, "ValueError", t, NoneText),
             logs |-> <<>> ]
      ELSE [ call |-> Call("generate_reply", "", message, "ok", t,
                           Some(str_strip(t.text))),
             logs |-> <<"Generated text">> ]
      : t \in GeminiTexts }

---------------------------------------------------------------------------
(* The handlers.  Each returns the set of its possible executions: the     *)
(* calls made and logs written so far, the value of the flag, and how it   *)
(* ended: ret is the returned value ("None" for Python's None), or "raise" *)
(* with exc the exception that is propagating.                             *)

Exec(cs, ls, active, ret, exc) ==
    [ calls |-> cs, logs |-> ls, active |-> active, ret |-> ret, exc |-> exc ]

\* execution e, continued by collaborator call r, ending as ret
Then(e, r, ret) ==
    Exec(e.calls \o <<r.call>>, e.logs \o r.logs, e.active, ret,
         IF Raised(r.call) THEN r.call.outcome ELSE "none")

\* variant: the flag is never written
set_processing_active_never(v, active, env_) == active

\* variant: the flag is written in every deployment mode
set_processing_active_ungated(v, active, env_) == v

\* variant: the flag is flipped, whatever the command
set_processing_active_toggle(v, active, env_) ==
    IF env_ = Production THEN ~active ELSE active

\* `if settings.env == "production": app.state.webhook.processing_active = v`
set_processing_active(v, active, env_) ==
    IF env_ = Production THEN v ELSE active

\* variant: a command is acknowledged but `return "OK"` is missing
handle_control_message_no_return(chat_guid, text, active, env_) ==
    IF text = AlphaOff
    THEN { Then(Exec(<<>>, <<>>, set_processing_active(FALSE, active, env_), "None", "none"),
                At(165, r), IF Raised(r.call) THEN "raise" ELSE "None")
           : r \in send_text(chat_guid, MsgDisabled) }
    ELSE IF text = AlphaOn
    THEN { Then(Exec(<<>>, <<>>, set_processing_active(TRUE, active, env_), "None", "none"),
                At(171, r), IF Raised(r.call) THEN "raise" ELSE "None")
           : r \in send_text(chat_guid, MsgEnabled) }
    ELSE { Exec(<<>>, <<>>, active, "None", "none") }

\* variant: the flag is written after the acknowledgement was sent
handle_control_message_ack_first(chat_guid, text, active, env_) ==
    IF text = AlphaOff
    THEN { Then(Exec(<<>>, <<>>,
                     IF Raised(r.call) THEN active
                     ELSE set_processing_active(FALSE, active, env_), "None", "none"),
                At(165, r), IF Raised(r.call) THEN "raise" ELSE "OK")
           : r \in send_text(chat_guid, MsgDisabled) }
    ELSE IF text = AlphaOn
    THEN { Then(Exec(<<>>, <<>>,
                     IF Raised(r.call) THEN active
                     ELSE set_processing_active(TRUE, active, env_), "None", "none"),
                At(171, r), IF Raised(r.call) THEN "raise" ELSE "OK")
           : r \in send_text(chat_guid, MsgEnabled) }
    ELSE { Exec(<<>>, <<>>, active, "None", "none") }

\* _handle_control_message
handle_control_message(chat_guid, text, active, env_) ==
    IF text = AlphaOff
    THEN { Then(Exec(<<>>, <<>>, set_processing_active(FALSE, active, env_), "None", "none"),
                At(165, r), IF Raised(r.call) THEN "raise" ELSE "OK")
           : r \in send_text(chat_guid, MsgDisabled) }
    ELSE IF text = AlphaOn
    THEN { Then(Exec(<<>>, <<>>, set_processing_active(TRUE, active, env_), "None", "none"),
                At(171, r), IF Raised(r.call) THEN "raise" ELSE "OK")
           : r \in send_text(chat_guid, MsgEnabled) }
    ELSE { Exec(<<>>, <<>>, active, "None", "none") }

\* variant: the text is trimmed but not lower-cased
normalize_no_lower(text) == str_strip(text)

\* `payload.data.text.strip().lower()`
normalize(text) == str_lower(str_strip(text))

\* `not payload.data.chats`: None and the empty list are both falsy
no_chats(chats) == chats.is_none \/ Len(chats.items) = 0

\* variant: the guid of the last chat is taken
first_chat_guid_last(chats) == chats.items[Len(chats.items)]

\* `payload.data.chats[0].guid`
first_chat_guid(chats) == chats.items[1]

\* variant: an empty text is not skipped
skip_processing_no_empty(text, active, is_from_me) ==
    ~active \/ is_from_me

\* `not text or not app.state.webhook.processing_active or payload.data.is_from_me`
skip_processing(text, active, is_from_me) ==
    text = <<>> \/ ~active \/ is_from_me

\* variant: a payload without chats is acknowledged with "OK"
no_chat_result_ok(active) ==
    Exec(<<>>, <<"No chat found in payload">>, active, "OK", "none")

\* `log.warning("No chat found in payload", ...); return "Error"`
no_chat_result(active) ==
    Exec(<<>>, <<"No chat found in payload">>, active, "Error", "none")

\* variant: the normalized text is handed to generate_reply
prompt_of_normalized(p) == normalize(p.text)

\* the prompt of `generate_reply(payload.data.text)`: the text as received
prompt_of(p) == p.text

\* variant: a reply send that fails is tried a second time
reply_retry(p, chat_guid, e) ==
    UNION { IF Raised(g.call)
            THEN { Then(e, g, "raise") }
            ELSE UNION { IF Raised(s.call)
                         THEN { Then(Then(Then(e, g, "None"), At(197, s), "None"),
                                     At(197, s2),
                                     IF Raised(s2.call) THEN "raise" ELSE "OK")
                                : s2 \in send_text(chat_guid, g.call.returns.text) }
                         ELSE { Then(Then(e, g, "None"), At(197, s), "OK") }
                         : s \in send_text(chat_guid, g.call.returns.text) }
            : g \in { At(196, r) : r \in generate_reply(prompt_of(p)) } }

\* handle_new_message, from generate_reply on (lines 196-197 and 211)
reply(p, chat_guid, e) ==
    UNION { IF Raised(g.call)
            THEN { Then(e, g, "raise") }
            ELSE { Then(Then(e, g, "None"), At(197, s),
                        IF Raised(s.call) THEN "raise" ELSE "OK")
                   : s \in send_text(chat_guid, g.call.returns.text) }
            : g \in { At(196, r) : r \in generate_reply(prompt_of(p)) } }

\* variant: the skip test is made first, ahead of the control check and of
\* mark_as_read
try_new_message_skip_first(p, active, env_) ==
    LET text == normalize(p.text) IN
    IF no_chats(p.chats)
    THEN { no_chat_result(active) }
    ELSE IF skip_processing(text, active, p.is_from_me)
    THEN { Exec(<<>>, <<>>, active, "OK", "none") }
    ELSE LET chat_guid == first_chat_guid(p.chats) IN
         UNION { IF c.ret # "None"
                 THEN { c }
                 ELSE UNION { IF Raised(m.call)
                              THEN { Then(c, m, "raise") }
                              ELSE reply(p, chat_guid, Then(c, m, "None"))
                              : m \in { At(190, r) : r \in mark_as_read(chat_guid) } }
                 : c \in handle_control_message(chat_guid, text, active, env_) }

\* handle_new_message, the body of its try block
try_new_message(p, active, env_) ==
    LET text == normalize(p.text) IN
    IF no_chats(p.chats)
    THEN { no_chat_result(active) }
    ELSE LET chat_guid == first_chat_guid(p.chats) IN
         UNION { IF c.ret # "None"
                 THEN { c }
                 ELSE UNION { IF Raised(m.call)
                              THEN { Then(c, m, "raise") }
                              ELSE IF skip_processing(text, c.active, p.is_from_me)
                              THEN { Then(c, m, "OK") }
                              ELSE reply(p, chat_guid, Then(c, m, "None"))
                              : m \in { At(190, r) : r \in mark_as_read(chat_guid) } }
                 : c \in handle_control_message(chat_guid, text, active, env_) }

\* f"Sorry, I encountered an error:\n\n{exc!s}"
apology(exc) == SorryPrefix \o ExcStr(exc)

\* handle_new_message, its `except Exception` clause: log, try to send the
\* apology, and re-raise whether or not that send worked
except_new_message(p, e) ==
    LET logged == [e EXCEPT !.logs = @ \o <<"Error processing new message">>] IN
    { IF Raised(s.call)
      THEN [ Then(logged, s, "raise")
             EXCEPT !.logs = @ \o <<"Failed to send error message">> ]
      ELSE [ Then(logged, s, "raise") EXCEPT !.exc = e.exc ]
      : s \in { At(202, r) : r \in send_text(first_chat_guid(p.chats), apology(e.exc)) } }

\* handle_new_message
handle_new_message(p, active, env_) ==
    UNION { IF e.ret = "raise" THEN except_new_message(p, e) ELSE { e }
            : e \in try_new_message(p, active, env_) }

\* variant: the record is written whatever the flag
event_logs_always(p, active) ==
    IF p.type = "typing-indicator" THEN <<"Typing indicator">>
    ELSE IF p.type = "updated-message" THEN <<"Updated message">>
    ELSE IF p.type = "chat-read-status-changed" THEN <<"Chat read status changed">>
    ELSE <<>>

\* post_webhook, `if app.state.webhook.processing_active:` and the three
\* isinstance tests under it
event_logs(p, active) ==
    IF ~active THEN <<>>
    ELSE IF p.type = "typing-indicator" THEN <<"Typing indicator">>
    ELSE IF p.type = "updated-message" THEN <<"Updated message">>
    ELSE IF p.type = "chat-read-status-changed" THEN <<"Chat read status changed">>
    ELSE <<>>

\* post_webhook
post_webhook(p, active, env_) ==
    IF p.type = "new-message"
    THEN handle_new_message(p, active, env_)
    ELSE { Exec(<<>>, event_logs(p, active), active, "OK", "none") }

\* what the framework answers for an execution of the endpoint: the returned
\* string with status 200, or 500 when an exception escaped the endpoint
http_response(e) ==
    IF e.ret = "raise"
    THEN [ status |-> 500, body |-> "Internal Server Error" ]
    ELSE [ status |-> 200, body |-> e.ret ]

NoResponse == [ status |-> 0, body |-> "" ]

\* post_webhook is a plain `def`: the framework runs it on a threadpool, so
\* two deliveries can be inside it at once
Workers == {"w1", "w2"}

\* a thread of the pool with no delivery to handle
IdleWorker ==
    [ pc |-> "idle", payload |-> NoPayload, calls |-> <<>>, logs |-> <<>>,
      exc |-> "none", read |-> "none", flag_at_send |-> "none",
      response |-> NoResponse ]

---------------------------------------------------------------------------
(* History: which control command was handled last.  Decided from the      *)
(* delivered body alone, independently of what the handler did with it.    *)

IsNewMessageWithChat(p) ==
    p.type = "new-message" /\ ~p.chats.is_none /\ p.chats.items # <<>>

IsCommand(p, command) ==
    IsNewMessageWithChat(p) /\ str_lower(str_strip(p.text)) = command

command_after(p, last) ==
    IF IsCommand(p, AlphaOff) THEN "alpha off"
    ELSE IF IsCommand(p, AlphaOn) THEN "alpha on"
    ELSE last

\* after execution e of the handler on p: whether the send that opened the
\* handling of the last command went through
ack_after(p, e, last) ==
    IF IsCommand(p, AlphaOff) \/ IsCommand(p, AlphaOn)
    THEN IF e.calls # <<>> /\ e.calls[1].op = "send_text" /\ ~Raised(e.calls[1])
         THEN "sent" ELSE "failed"
    ELSE last

---------------------------------------------------------------------------
(* The state machine *)

Init ==
    /\ processing_active = TRUE
    /\ env \in Envs
    /\ pc = "idle"
    /\ payload = NoPayload
    /\ calls = <<>>
    /\ logs = <<>>
    /\ response = NoResponse
    /\ last_command = "none"
    /\ active_on_entry = TRUE
    /\ last_ack = "none"
    /\ workers = [w \in Workers |-> IdleWorker]

\* one webhook delivery with a valid body: post_webhook from entry to answer
Deliver ==
    /\ pc = "idle"
    /\ \E p \in Payloads \cup InvalidBodies :
         /\ accepts(p)
         /\ \E e \in post_webhook(p, processing_active, env) :
            /\ payload' = p
            /\ processing_active' = e.active
            /\ calls' = e.calls
            /\ logs' = e.logs
            /\ response' = http_response(e)
            /\ last_command' = command_after(p, last_command)
            /\ last_ack' = ack_after(p, e, last_ack)
    /\ pc' = "done"
    /\ active_on_entry' = processing_active
    /\ UNCHANGED <<env, workers>>

\* a body the discriminated union rejects: validation_exception_handler logs
\* it and answers 422; post_webhook is never entered
Reject ==
    /\ pc = "idle"
    /\ \E b \in Payloads \cup InvalidBodies : ~accepts(b) /\ payload' = b
    /\ calls' = <<>>
    /\ logs' = <<"Validation error">>
    /\ response' = [ status |-> 422, body |-> "Unprocessable Entity" ]
    /\ pc' = "done"
    /\ active_on_entry' = processing_active
    /\ UNCHANGED <<processing_active, env, last_command, last_ack, workers>>

\* the request is over: its locals are gone, only the flag stays
Complete ==
    /\ pc = "done"
    /\ pc' = "idle"
    /\ payload' = NoPayload
    /\ calls' = <<>>
    /\ logs' = <<>>
    /\ response' = NoResponse
    /\ active_on_entry' = processing_active
    /\ UNCHANGED <<processing_active, env, last_command, last_ack, workers>>

Next == Deliver \/ Reject \/ Complete

Spec == Init /\ [][Next]_vars

TypeOK ==
    /\ processing_active \in BOOLEAN
    /\ env \in Envs
    /\ pc \in {"idle", "done"}
    /\ last_command \in {"none", "alpha off", "alpha on"}
    /\ response.status \in {0, 200, 422, 500}
    /\ active_on_entry \in BOOLEAN
    /\ last_ack \in {"none", "sent", "failed"}
    /\ DOMAIN workers = Workers

---------------------------------------------------------------------------
(* What can be observed of the delivery last handled *)

Handled == pc = "done"

OK200 == [ status |-> 200, body |-> "OK" ]

Error200 == [ status |-> 200, body |-> "Error" ]

\* the message text after trimming and lower-casing
Normalized == str_lower(str_strip(payload.text))

\* a new-message with a chat whose text is one of the two commands
ControlMessage == IsCommand(payload, AlphaOff) \/ IsCommand(payload, AlphaOn)

\* a new-message with a chat whose text is no command
OrdinaryMessage == IsNewMessageWithChat(payload) /\ ~ControlMessage

CallsTo(op) == { i \in DOMAIN calls : calls[i].op = op }

\* the sends made from line `site` of core.py: 165 and 171 acknowledge a
\* command, 197 sends the reply, 202 sends the apology
SendsAt(site) == { i \in CallsTo("send_text") : calls[i].site = site }

FirstGuid == payload.chats.items[1]

MarkReturned == \E i \in CallsTo("mark_as_read") : ~Raised(calls[i])

---------------------------------------------------------------------------
(* Claims *)

\* C1: in production mode, once "alpha off" has been handled, no ordinary
\* new-message leads to a generate-reply call or a reply send until
\* "alpha on" is handled; from the start, and again after "alpha on", an
\* ordinary message that is not empty after trimming and not from the bot
\* itself is replied to: generation is invoked once mark-as-read has
\* returned, and what it returns is handed to the reply send.
C1_OffSuppressesUntilOn ==
    (Handled /\ env = Production /\ OrdinaryMessage) =>
        /\ last_command = "alpha off" =>
              CallsTo("generate_reply") = {} /\ SendsAt(197) = {}
        /\ ( /\ last_command \in {"none", "alpha on"}
             /\ Normalized # <<>>
             /\ ~payload.is_from_me
             /\ MarkReturned ) =>
              /\ Cardinality(CallsTo("generate_reply")) = 1
              /\ \A i \in CallsTo("generate_reply") :
                    ~Raised(calls[i]) => Cardinality(SendsAt(197)) = 1

\* an ordinary, otherwise eligible message is only marked read while the
\* last command handled in production is "alpha off"
C1_Witness ==
    /\ Handled
    /\ env = Production
    /\ last_command = "alpha off"
    /\ OrdinaryMessage
    /\ Normalized # <<>>
    /\ ~payload.is_from_me
    /\ Len(calls) = 1
    /\ calls[1].op = "mark_as_read"
    /\ calls[1].outcome = "ok"
    /\ response = OK200

\* C2: outside production, "alpha off" (resp. "alpha on") is acknowledged
\* with "Webhook processing disabled" (resp. "enabled") sent to the first
\* chat, the delivery answers "OK" once that send went through, and
\* processing_active keeps the value it had, so later deliveries are
\* handled as if the command had not been sent.
C2_NonProductionAckOnly ==
    (Handled /\ env # Production /\ ControlMessage) =>
        /\ processing_active = active_on_entry
        /\ Len(calls) >= 1
        /\ calls[1].op = "send_text"
        /\ calls[1].chat_guid = FirstGuid
        /\ calls[1].message =
              (IF IsCommand(payload, AlphaOff) THEN MsgDisabled ELSE MsgEnabled)
        /\ calls[1].outcome = "ok" => (Len(calls) = 1 /\ response = OK200)

\* "alpha off" acknowledged in development with the flag still true
C2_Witness ==
    /\ Handled
    /\ env # Production
    /\ IsCommand(payload, AlphaOff)
    /\ Len(calls) = 1
    /\ calls[1].message = MsgDisabled
    /\ calls[1].outcome = "ok"
    /\ response = OK200
    /\ active_on_entry = TRUE
    /\ processing_active = TRUE

\* C3: a new-message whose chat list is empty or absent is answered "Error"
\* with no outbound call of any kind and the flag unchanged, whatever its
\* text, its is_from_me and the flag.
C3_NoChatIsError ==
    ( /\ Handled
      /\ payload.type = "new-message"
      /\ (payload.chats.is_none \/ payload.chats.items = <<>>) ) =>
        /\ response = Error200
        /\ calls = <<>>
        /\ processing_active = active_on_entry

\* "alpha off" with an empty chat list while the flag is true, in production
C3_Witness ==
    /\ Handled
    /\ env = Production
    /\ payload.type = "new-message"
    /\ ~payload.chats.is_none
    /\ payload.chats.items = <<>>
    /\ Normalized = AlphaOff
    /\ active_on_entry = TRUE
    /\ response = Error200

---------------------------------------------------------------------------

\* every outbound call of the delivery went through
AllSucceeded == \A i \in DOMAIN calls : calls[i].outcome = "ok"

\* one generate-reply call with the text as received, its result sent once to
\* the first chat and nothing else sent, answered "OK"
RepliedOnce ==
    /\ Cardinality(CallsTo("generate_reply")) = 1
    /\ \A i \in CallsTo("generate_reply") : calls[i].message = payload.text
    /\ Cardinality(CallsTo("send_text")) = 1
    /\ \A j \in CallsTo("send_text") :
          /\ calls[j].chat_guid = FirstGuid
          /\ \E i \in CallsTo("generate_reply") :
                /\ i < j
                /\ ~calls[i].returns.is_none
                /\ calls[j].message = calls[i].returns.text
    /\ response = OK200

\* C4 as stated: with a chat, is_from_me false, the flag true, a non-empty
\* text that is no command and every collaborator succeeding, the reply is
\* generated once from the original text, sent once to the first chat, and
\* the answer is "OK".
C4_NonEmptyTextReplied ==
    ( /\ Handled
      /\ OrdinaryMessage
      /\ ~payload.is_from_me
      /\ active_on_entry
      /\ payload.text # <<>>
      /\ AllSucceeded ) => RepliedOnce

\* C4, amended: the same, for a text that is not empty after trimming
\* whitespace.
C4_NonBlankTextReplied ==
    ( /\ Handled
      /\ OrdinaryMessage
      /\ ~payload.is_from_me
      /\ active_on_entry
      /\ str_strip(payload.text) # <<>>
      /\ AllSucceeded ) => RepliedOnce

\* " Hello " to chats X, Y: Gemini's " Hi\n" goes to X as "Hi"
C4_Witness ==
    /\ Handled
    /\ OrdinaryMessage
    /\ payload.text = <<" ", "H", "e", "l", "l", "o", " ">>
    /\ payload.chats.items = <<"X", "Y">>
    /\ ~payload.is_from_me
    /\ active_on_entry
    /\ AllSucceeded
    /\ Len(calls) = 3
    /\ calls[2].op = "generate_reply"
    /\ calls[2].message = payload.text
    /\ calls[2].gemini.text = <<" ", "H", "i", "\n">>
    /\ calls[3].op = "send_text"
    /\ calls[3].chat_guid = "X"
    /\ calls[3].message = <<"H", "i">>
    /\ response = OK200

\* reply generation, or the send of the reply, raised
ReplyPathFailed ==
    \/ \E i \in CallsTo("generate_reply") : Raised(calls[i])
    \/ \E j \in SendsAt(197) : Raised(calls[j])

\* C5: when reply generation or the reply send fails, exactly one apology
\* send to the first chat is attempted and the handler's result is the
\* status "Error", whether or not the apology send works.
C5_ApologyThenError ==
    (Handled /\ IsNewMessageWithChat(payload) /\ ReplyPathFailed) =>
        /\ Cardinality(SendsAt(202)) = 1
        /\ \A j \in SendsAt(202) : calls[j].chat_guid = FirstGuid
        /\ response = Error200

\* C6: every delivery of one of the four kinds is answered with status 200
\* and the body "OK" or "Error", whatever the collaborators do.
C6_AlwaysOkOrError ==
    (Handled /\ payload \in Payloads) => response \in {OK200, Error200}

\* the mark-as-read call did not succeed
MarkFailed == \E i \in CallsTo("mark_as_read") : calls[i].outcome # "ok"

\* C7: a failed mark-as-read does not keep an ordinary, eligible message
\* from being replied to (generation invoked, its result sent to the first
\* chat, "OK" when both work), and by itself it causes neither an apology
\* send nor an answer other than "OK".
C7_MarkAsReadBestEffort ==
    (Handled /\ OrdinaryMessage /\ MarkFailed) =>
        /\ (Normalized # <<>> /\ active_on_entry /\ ~payload.is_from_me) =>
              /\ Cardinality(CallsTo("generate_reply")) = 1
              /\ \A i \in CallsTo("generate_reply") :
                    ~Raised(calls[i]) =>
                        /\ Cardinality(SendsAt(197)) = 1
                        /\ \A j \in SendsAt(197) :
                              /\ calls[j].chat_guid = FirstGuid
                              /\ ~Raised(calls[j]) => response = OK200
        /\ ~ReplyPathFailed => (SendsAt(202) = {} /\ response = OK200)

\* no generation, no send, answered "OK"
Suppressed ==
    /\ CallsTo("generate_reply") = {}
    /\ CallsTo("send_text") = {}
    /\ response = OK200

C9_FromMeNeverAnswered ==
    (Handled /\ OrdinaryMessage /\ payload.is_from_me) =>
        /\ CallsTo("generate_reply") = {}
        /\ CallsTo("send_text") = {}
        /\ response = OK200

\* C10: processing_active is true at the start, and a step changes it only
\* by handling, in production mode, a new-message with a chat whose
\* normalized text is "alpha off" (to false) or "alpha on" (to true).
C10_FlagOnlyByCommand ==
    /\ processing_active = TRUE
    /\ [][ processing_active' # processing_active =>
              /\ pc = "idle" /\ pc' = "done"
              /\ env = Production
              /\ \/ IsCommand(payload', AlphaOff) /\ processing_active' = FALSE
                 \/ IsCommand(payload', AlphaOn) /\ processing_active' = TRUE
         ]_vars

\* "alpha off" has just turned the flag off although its acknowledgement
\* could not be sent
C10_Witness ==
    /\ Handled
    /\ env = Production
    /\ IsCommand(payload, AlphaOff)
    /\ active_on_entry = TRUE
    /\ processing_active = FALSE
    /\ Raised(calls[1])

---------------------------------------------------------------------------

OtherKinds == {"typing-indicator", "updated-message", "chat-read-status-changed"}

\* the log record post_webhook writes for an event of each other kind
RecordOf(kind) ==
    CASE kind = "typing-indicator" -> "Typing indicator"
      [] kind = "updated-message" -> "Updated message"
      [] kind = "chat-read-status-changed" -> "Chat read status changed"

\* C11: a typing-indicator, updated-message or chat-read-status-changed
\* event makes no outbound call, is answered "OK" and leaves the flag alone;
\* its one log record is written exactly when processing_active is true, so
\* while the flag is false such events leave no record and make no call.
C11_OtherKindsLogOnly ==
    (Handled /\ payload.type \in OtherKinds) =>
        /\ calls = <<>>
        /\ response = OK200
        /\ processing_active = active_on_entry
        /\ logs = (IF active_on_entry THEN <<RecordOf(payload.type)>> ELSE <<>>)

\* a typing indicator handled while the flag is false: nothing logged
C11_Witness ==
    /\ Handled
    /\ payload.type = "typing-indicator"
    /\ ~active_on_entry
    /\ ~processing_active
    /\ logs = <<>>
    /\ calls = <<>>
    /\ response = OK200

---------------------------------------------------------------------------

\* character c is letter d, in either case
SameLetter(c, d) ==
    c = d \/ \E i \in 1..Len(Upper) : Upper[i] = c /\ LowerLetters[i] = d

\* text t is the words of command cmd, in any letter case, with nothing but
\* whitespace before and after
ReadsAs(t, cmd) ==
    \E i \in 0..Len(t) :
        /\ i + Len(cmd) <= Len(t)
        /\ \A k \in 1..i : t[k] \in Whitespace
        /\ \A k \in 1..Len(cmd) : SameLetter(t[i + k], cmd[k])
        /\ \A k \in (i + Len(cmd) + 1)..Len(t) : t[k] \in Whitespace

\* the sends that acknowledge a command
AckSends == SendsAt(165) \cup SendsAt(171)

\* C12: a new-message with a chat is treated as a control command (it is
\* acknowledged, and neither marked read nor handed to reply generation)
\* exactly when its text reads "alpha off" or "alpha on" up to surrounding
\* whitespace and letter case; with any other text (two blanks between the
\* words, a further word) it is an ordinary message: never acknowledged,
\* the flag untouched, and its handling starts with mark-as-read.
C12_CommandIffTrimmedLowered ==
    (Handled /\ IsNewMessageWithChat(payload)) =>
        LET off == ReadsAs(payload.text, AlphaOff)
            on == ReadsAs(payload.text, AlphaOn)
        IN  /\ (off \/ on) =>
                  /\ calls[1].op = "send_text"
                  /\ calls[1].site = (IF off THEN 165 ELSE 171)
                  /\ calls[1].message = (IF off THEN MsgDisabled ELSE MsgEnabled)
                  /\ CallsTo("mark_as_read") = {}
                  /\ CallsTo("generate_reply") = {}
            /\ ~(off \/ on) =>
                  /\ AckSends = {}
                  /\ calls[1].op = "mark_as_read"
                  /\ processing_active = active_on_entry

\* " ALPHA OFF " is acknowledged as "alpha off"
C12_Witness ==
    /\ Handled
    /\ IsNewMessageWithChat(payload)
    /\ payload.text = <<" ", "A", "L", "P", "H", "A", " ", "O", "F", "F", " ">>
    /\ env = Production
    /\ active_on_entry
    /\ ~processing_active
    /\ Len(calls) = 1
    /\ calls[1].message = MsgDisabled
    /\ response = OK200

---------------------------------------------------------------------------

MarkRaised == \E i \in CallsTo("mark_as_read") : Raised(calls[i])

\* C13 as stated, for the deliveries whose mark-as-read call did not raise:
\* a control command results in exactly one send, the acknowledgement, and
\* in no mark-as-read or reply generation; a message that is not replied to
\* results in no send; a replied message results in exactly one reply
\* generation and exactly one send, and never in an acknowledgement.
C13_ExactlyOneSendPerPath ==
    (Handled /\ IsNewMessageWithChat(payload) /\ ~MarkRaised) =>
        /\ ControlMessage =>
              /\ Cardinality(CallsTo("send_text")) = 1
              /\ CallsTo("send_text") = AckSends
              /\ CallsTo("mark_as_read") = {}
              /\ CallsTo("generate_reply") = {}
        /\ (OrdinaryMessage /\ CallsTo("generate_reply") = {}) =>
              CallsTo("send_text") = {}
        /\ (OrdinaryMessage /\ CallsTo("generate_reply") # {}) =>
              /\ Cardinality(CallsTo("generate_reply")) = 1
              /\ Cardinality(CallsTo("send_text")) = 1
              /\ AckSends = {}

\* C13, amended: the three paths never mix.  A control command results in
\* exactly one acknowledgement send and in no mark-as-read, reply generation
\* or reply send; an ordinary message is never acknowledged, and is either
\* not handed to reply generation (then no reply is sent) or handed to it
\* exactly once, with exactly one reply send when generation returns and
\* none when it raises.  The only other send is the single apology send
\* (line 202), made exactly when a call of the delivery raised; so when no
\* call raises the sends are one, none and one respectively.
C13_PathsNeverMix ==
    (Handled /\ IsNewMessageWithChat(payload)) =>
        /\ ControlMessage =>
              /\ Cardinality(AckSends) = 1
              /\ CallsTo("mark_as_read") = {}
              /\ CallsTo("generate_reply") = {}
              /\ SendsAt(197) = {}
        /\ OrdinaryMessage =>
              /\ AckSends = {}
              /\ Cardinality(CallsTo("generate_reply")) <= 1
              /\ CallsTo("generate_reply") = {} => SendsAt(197) = {}
              /\ \A i \in CallsTo("generate_reply") :
                    Cardinality(SendsAt(197)) = (IF Raised(calls[i]) THEN 0 ELSE 1)
        /\ CallsTo("send_text") = AckSends \cup SendsAt(197) \cup SendsAt(202)
        /\ Cardinality(SendsAt(202)) =
              (IF \E i \in DOMAIN calls : calls[i].site # 202 /\ Raised(calls[i])
               THEN 1 ELSE 0)

\* a command whose acknowledgement could not be sent: a second send, the
\* apology, follows
C13_Witness ==
    /\ Handled
    /\ ControlMessage
    /\ Len(calls) = 2
    /\ calls[1].site \in {165, 171}
    /\ Raised(calls[1])
    /\ calls[2].op = "send_text"
    /\ calls[2].site = 202
    /\ calls[2].chat_guid = FirstGuid

---------------------------------------------------------------------------

\* C14: a control command is honoured in every state: whatever the flag and
\* is_from_me, the first thing done is the send of its acknowledgement to the
\* first chat, and in production the flag then has the commanded value, so
\* "alpha on" always brings a suspended gate back to active.
C14_CommandsAlwaysHonoured ==
    (Handled /\ ControlMessage) =>
        /\ calls # <<>>
        /\ calls[1].op = "send_text"
        /\ calls[1].chat_guid = FirstGuid
        /\ calls[1].message =
              (IF IsCommand(payload, AlphaOn) THEN MsgEnabled ELSE MsgDisabled)
        /\ env = Production => (processing_active <=> IsCommand(payload, AlphaOn))

\* "alpha on", echoed back as the bot's own message while the gate is
\* suspended, re-activates it in production
C14_Witness ==
    /\ Handled
    /\ env = Production
    /\ IsCommand(payload, AlphaOn)
    /\ payload.is_from_me
    /\ ~active_on_entry
    /\ processing_active
    /\ Len(calls) = 1
    /\ calls[1].message = MsgEnabled
    /\ response = OK200

---------------------------------------------------------------------------

\* C15: every outbound action of a new-message delivery -- mark-as-read,
\* acknowledgement, reply and apology -- is addressed to the guid of the
\* first chat of the list; no call is made for a later chat.
C15_FirstChatOnly ==
    (Handled /\ IsNewMessageWithChat(payload)) =>
        \A i \in CallsTo("send_text") \cup CallsTo("mark_as_read") :
            calls[i].chat_guid = FirstGuid

\* chats Y, X: marked read, the reply and then the apology all go to Y
C15_Witness ==
    /\ Handled
    /\ IsNewMessageWithChat(payload)
    /\ payload.chats.items = <<"Y", "X">>
    /\ Len(calls) = 4
    /\ calls[1].op = "mark_as_read" /\ calls[1].chat_guid = "Y"
    /\ calls[3].site = 197 /\ calls[3].chat_guid = "Y" /\ Raised(calls[3])
    /\ calls[4].site = 202 /\ calls[4].chat_guid = "Y"

\* C16: for an ordinary new-message with a chat, mark-as-read is invoked
\* exactly once, as the first call of the delivery, hence before the skip
\* test: also for a message that is then suppressed, and ahead of any
\* reply-generation call.
C16_MarkAsReadFirst ==
    (Handled /\ OrdinaryMessage) =>
        /\ Cardinality(CallsTo("mark_as_read")) = 1
        /\ calls # <<>>
        /\ calls[1].op = "mark_as_read"
        /\ calls[1].chat_guid = FirstGuid
        /\ \A i \in CallsTo("generate_reply") : i > 1

\* the bot's own "Hello", echoed while the flag is false, is still marked read
C16_Witness ==
    /\ Handled
    /\ OrdinaryMessage
    /\ payload.text = <<"H", "e", "l", "l", "o">>
    /\ payload.is_from_me
    /\ ~active_on_entry
    /\ Len(calls) = 1
    /\ calls[1].op = "mark_as_read"
    /\ calls[1].outcome = "ok"
    /\ response = OK200

---------------------------------------------------------------------------

\* C17: nothing is retried.  Whatever fails, one delivery makes at most one
\* reply-generation call, one reply send, one mark-as-read, one
\* acknowledgement send and one apology send; a call that raised is followed
\* by nothing but that apology send; and a delivery in which a call raised
\* is not answered "OK".
C17_NothingRetried ==
    (Handled /\ payload.type = "new-message") =>
        /\ Cardinality(CallsTo("generate_reply")) <= 1
        /\ Cardinality(SendsAt(197)) <= 1
        /\ Cardinality(CallsTo("mark_as_read")) <= 1
        /\ Cardinality(AckSends) <= 1
        /\ Cardinality(SendsAt(202)) <= 1
        /\ \A i \in DOMAIN calls :
              Raised(calls[i]) =>
                  \/ i = Len(calls)
                  \/ i = Len(calls) - 1 /\ calls[Len(calls)].site = 202
        /\ (\E i \in DOMAIN calls : Raised(calls[i])) => response # OK200

\* the reply send fails and so does the apology send: four calls, each made
\* once, and the delivery does not end "OK"
C17_Witness ==
    /\ Handled
    /\ OrdinaryMessage
    /\ Len(calls) = 4
    /\ calls[1].op = "mark_as_read"
    /\ calls[2].op = "generate_reply" /\ ~Raised(calls[2])
    /\ calls[3].site = 197 /\ Raised(calls[3])
    /\ calls[4].site = 202 /\ Raised(calls[4])
    /\ response # OK200

---------------------------------------------------------------------------
(* Overlapping deliveries.  Each thread runs post_webhook in program order; *)
(* a step is one access to the shared flag or one collaborator call, and    *)
(* the threads' steps interleave freely.  A read or a write of the          *)
(* attribute processing_active is one indivisible step.                     *)

\* the deliveries used when two of them overlap
ConcPayloads ==
    { [ type |-> "new-message", text |-> t, is_from_me |-> FALSE,
        chats |-> [is_none |-> FALSE, items |-> <<"X">>] ]
      : t \in { <<>>, <<"H", "e", "l", "l", "o">>,
                <<"A", "L", "P", "H", "A", " ", "O", "F", "F">>,
                <<"A", "l", "p", "h", "a", " ", "O", "n">> } }
    \cup
    { [ type |-> "new-message", text |-> <<"H", "e", "l", "l", "o">>,
        is_from_me |-> TRUE, chats |-> [is_none |-> FALSE, items |-> <<"X">>] ],
      [ type |-> "new-message", text |-> <<"H", "e", "l", "l", "o">>,
        is_from_me |-> FALSE, chats |-> [is_none |-> TRUE, items |-> <<>>] ],
      [ type |-> "typing-indicator", display |-> TRUE, guid |-> "X" ] }

\* the flag's value, as a thread remembers having seen it
Seen(active) == IF active THEN "on" ELSE "off"

\* the variables of the one-delivery-at-a-time view
seq_vars == <<pc, payload, calls, logs, response, active_on_entry, last_ack>>

\* where post_webhook and handle_new_message first touch the flag or a
\* collaborator, for payload p
first_step(p) ==
    IF p.type # "new-message" THEN "event"
    ELSE IF no_chats(p.chats) THEN "nochat"
    ELSE IF normalize(p.text) \in {AlphaOff, AlphaOn} THEN "control"
    ELSE "mark"

\* thread wk after collaborator call r: on to `next`, or into the except
\* clause when the call raised
After(wk, r, next) ==
    LET e == Then(Exec(wk.calls, wk.logs, TRUE, "None", "none"), r, "None") IN
    [ wk EXCEPT !.calls = e.calls, !.logs = e.logs, !.exc = e.exc,
                !.pc = IF Raised(r.call) THEN "except" ELSE next ]

\* thread wk leaves post_webhook with execution e
Finish(wk, e) ==
    [ wk EXCEPT !.pc = "done", !.calls = e.calls, !.logs = e.logs,
                !.exc = e.exc, !.response = http_response(e) ]

\* thread wk returns "OK"
ReturnOK(wk) == Finish(wk, Exec(wk.calls, wk.logs, TRUE, "OK", "none"))

\* a delivery is handed to an idle thread
CBegin(w) ==
    /\ workers[w].pc = "idle"
    /\ \E p \in ConcPayloads :
         workers' = [workers EXCEPT ![w] = [@ EXCEPT !.payload = p,
                                                     !.pc = first_step(p)]]
    /\ UNCHANGED <<processing_active, env, last_command, seq_vars>>

\* post_webhook, lines 231-241: the flag is read once and the event logged
CEvent(w) ==
    /\ workers[w].pc = "event"
    /\ LET wk == workers[w]
           logged == [wk EXCEPT !.logs = event_logs(wk.payload, processing_active),
                                !.read = Seen(processing_active)]
       IN workers' = [workers EXCEPT ![w] = ReturnOK(logged)]
    /\ UNCHANGED <<processing_active, env, last_command, seq_vars>>

\* handle_new_message, lines 181-183
CNoChat(w) ==
    /\ workers[w].pc = "nochat"
    /\ workers' = [workers EXCEPT ![w] = Finish(@, no_chat_result(TRUE))]
    /\ UNCHANGED <<processing_active, env, last_command, seq_vars>>

\* _handle_control_message, lines 163-164 and 169-170: the write of the flag
CControlWrite(w) ==
    /\ workers[w].pc = "control"
    /\ processing_active' =
          set_processing_active(normalize(workers[w].payload.text) = AlphaOn,
                                processing_active, env)
    /\ last_command' = command_after(workers[w].payload, last_command)
    /\ workers' = [workers EXCEPT ![w].pc = "ack"]
    /\ UNCHANGED <<env, seq_vars>>

\* _handle_control_message, lines 165-166 and 171-172: the acknowledgement
CAck(w) ==
    /\ workers[w].pc = "ack"
    /\ LET wk == workers[w]
           off == normalize(wk.payload.text) = AlphaOff
       IN \E r \in send_text(first_chat_guid(wk.payload.chats),
                             IF off THEN MsgDisabled ELSE MsgEnabled) :
             LET a == After(wk, At(IF off THEN 165 ELSE 171, r), "done") IN
             workers' = [workers EXCEPT ![w] =
                            IF a.pc = "done" THEN ReturnOK(a) ELSE a]
    /\ UNCHANGED <<processing_active, env, last_command, seq_vars>>

\* handle_new_message, line 190
CMark(w) ==
    /\ workers[w].pc = "mark"
    /\ \E r \in mark_as_read(first_chat_guid(workers[w].payload.chats)) :
          workers' = [workers EXCEPT ![w] = After(@, At(190, r), "check")]
    /\ UNCHANGED <<processing_active, env, last_command, seq_vars>>

\* handle_new_message, lines 193-194: `or` stops at the first true operand,
\* so the flag is read only when the normalized text is not empty
CCheck(w) ==
    /\ workers[w].pc = "check"
    /\ LET wk == workers[w]
           text == normalize(wk.payload.text)
           seen == [wk EXCEPT !.read = IF text = <<>> THEN "none"
                                       ELSE Seen(processing_active)]
       IN workers' = [workers EXCEPT ![w] =
             IF skip_processing(text, processing_active, wk.payload.is_from_me)
             THEN ReturnOK(seen)
             ELSE [seen EXCEPT !.pc = "generate"]]
    /\ UNCHANGED <<processing_active, env, last_command, seq_vars>>

\* handle_new_message, line 196
CGenerate(w) ==
    /\ workers[w].pc = "generate"
    /\ \E r \in generate_reply(prompt_of(workers[w].payload)) :
          workers' = [workers EXCEPT ![w] = After(@, At(196, r), "send")]
    /\ UNCHANGED <<processing_active, env, last_command, seq_vars>>

\* handle_new_message, lines 197 and 211: the reply is sent; flag_at_send
\* remembers what the flag was by then
CSend(w) ==
    /\ workers[w].pc = "send"
    /\ LET wk == workers[w]
           message == wk.calls[Len(wk.calls)].returns.text
       IN \E r \in send_text(first_chat_guid(wk.payload.chats), message) :
             LET a == [ After(wk, At(197, r), "done")
                        EXCEPT !.flag_at_send = Seen(processing_active) ] IN
             workers' = [workers EXCEPT ![w] =
                            IF a.pc = "done" THEN ReturnOK(a) ELSE a]
    /\ UNCHANGED <<processing_active, env, last_command, seq_vars>>

\* handle_new_message, lines 199-209
CExcept(w) ==
    /\ workers[w].pc = "except"
    /\ LET wk == workers[w] IN
       \E e \in except_new_message(wk.payload,
                   Exec(wk.calls, wk.logs, TRUE, "raise", wk.exc)) :
          workers' = [workers EXCEPT ![w] = Finish(wk, e)]
    /\ UNCHANGED <<processing_active, env, last_command, seq_vars>>

\* the response is out and the thread goes back to the pool
CComplete(w) ==
    /\ workers[w].pc = "done"
    /\ workers' = [workers EXCEPT ![w] = IdleWorker]
    /\ UNCHANGED <<processing_active, env, last_command, seq_vars>>

NextConc ==
    \E w \in Workers :
        \/ CBegin(w)
        \/ CEvent(w)
        \/ CNoChat(w)
        \/ CControlWrite(w)
        \/ CAck(w)
        \/ CMark(w)
        \/ CCheck(w)
        \/ CGenerate(w)
        \/ CSend(w)
        \/ CExcept(w)
        \/ CComplete(w)

SpecConc == Init /\ [][NextConc]_vars

\* thread w made a call from line `site`
CalledAt(w, site) ==
    \E i \in 1..Len(workers[w].calls) : workers[w].calls[i].site = site

\* the flag values a thread's delivery can have gone by: the one it read,
\* or either when it read none
ReadOf(w) ==
    IF workers[w].read = "none" THEN BOOLEAN ELSE { workers[w].read = "on" }

\* what a one-at-a-time execution of post_webhook on payload p, with the
\* flag at b, in deployment mode v, calls, logs and answers
OneAtATime ==
    [ p \in ConcPayloads |-> [ b \in BOOLEAN |-> [ v \in Envs |->
        { [ calls |-> e.calls, logs |-> e.logs, response |-> http_response(e) ]
          : e \in post_webhook(p, b, v) } ] ] ]

\* C18: with overlapping deliveries the race on the flag is benign.  The flag
\* always holds what the last command written in production said (true
\* before any); a delivery that has ended made exactly the calls, wrote the
\* logs and got the answer of a one-at-a-time execution of post_webhook on
\* the flag value it read, and ends in 500 only if one of its own calls
\* raised; and a reply is generated or sent only by a delivery whose
\* suppression check read the flag as true -- when the flag is false by the
\* time of the send, a command was written in production in between.
C18_RaceIsBenign ==
    /\ processing_active = ~(env = Production /\ last_command = "alpha off")
    /\ \A w \in Workers :
         /\ workers[w].pc = "done" =>
               /\ \E b \in ReadOf(w) :
                     [ calls |-> workers[w].calls, logs |-> workers[w].logs,
                       response |-> workers[w].response ]
                         \in OneAtATime[workers[w].payload][b][env]
               /\ workers[w].response.status = 500 =>
                     \E i \in 1..Len(workers[w].calls) : Raised(workers[w].calls[i])
         /\ (CalledAt(w, 196) \/ CalledAt(w, 197)) => workers[w].read = "on"
         /\ workers[w].flag_at_send = "off" =>
               (workers[w].read = "on" /\ env = Production /\ last_command # "none")

\* a stale decision: w1 read the flag as true, w2's "alpha off" was written
\* and acknowledged, and w1's reply went out afterwards
C18_Witness ==
    /\ env = Production
    /\ workers["w1"].pc = "done"
    /\ workers["w1"].read = "on"
    /\ workers["w1"].flag_at_send = "off"
    /\ CalledAt("w1", 197)
    /\ workers["w1"].response = OK200
    /\ workers["w2"].pc = "done"
    /\ normalize(workers["w2"].payload.text) = AlphaOff
    /\ workers["w2"].response = OK200
    /\ ~processing_active

---------------------------------------------------------------------------

\* C19: a body whose type is none of the four is turned away before
\* post_webhook is entered: it is answered 422 with the validation failure
\* logged, and causes no send, no mark-as-read, no reply generation and no
\* change of the flag.
C19_UnknownTypeRejected ==
    (Handled /\ payload.type \notin OtherKinds \cup {"new-message"}) =>
        /\ response.status = 422
        /\ logs = <<"Validation error">>
        /\ calls = <<>>
        /\ processing_active = active_on_entry

\* a "group-name-change" body, turned away while the flag is false
C19_Witness ==
    /\ Handled
    /\ payload.type = "group-name-change"
    /\ ~active_on_entry
    /\ ~processing_active
    /\ response.status = 422
    /\ calls = <<>>

\* C20: in production the flag is written before the acknowledgement is sent
\* and is not rolled back: when that send fails the flag nevertheless has the
\* commanded value, and the ordinary messages that follow are handled
\* accordingly -- no reply generation and no reply send after a failed
\* "alpha off", reply generation for an eligible message after a failed
\* "alpha on".
C20_FlagWrittenBeforeAck ==
    /\ (Handled /\ env = Production /\ ControlMessage) =>
          /\ calls # <<>>
          /\ Raised(calls[1]) =>
                (processing_active <=> IsCommand(payload, AlphaOn))
    /\ (Handled /\ env = Production /\ OrdinaryMessage /\ last_ack = "failed") =>
          /\ last_command = "alpha off" =>
                (CallsTo("generate_reply") = {} /\ SendsAt(197) = {})
          /\ ( /\ last_command = "alpha on"
               /\ Normalized # <<>>
               /\ ~payload.is_from_me
               /\ MarkReturned ) =>
                Cardinality(CallsTo("generate_reply")) = 1

\* after an "alpha off" whose acknowledgement could not be sent, "Hello" is
\* only marked read
C20_Witness ==
    /\ Handled
    /\ env = Production
    /\ last_command = "alpha off"
    /\ last_ack = "failed"
    /\ OrdinaryMessage
    /\ payload.text = <<"H", "e", "l", "l", "o">>
    /\ ~payload.is_from_me
    /\ Len(calls) = 1
    /\ calls[1].op = "mark_as_read"
    /\ response = OK200

---------------------------------------------------------------------------

\* the reply-generation service returned no text, or an empty one
NoGeminiText(call) ==
    call.outcome # "APIError" /\ (call.gemini.is_none \/ call.gemini.text = <<>>)

\* C21: a missing or empty text from the reply-generation service is a
\* generation failure -- generate_reply raises, no reply is sent, one apology
\* send is attempted and the delivery is not answered "OK" -- and no reply
\* with an empty text is ever sent to the chat.
C21_NoEmptyReply ==
    (Handled /\ IsNewMessageWithChat(payload)) =>
        /\ \A i \in CallsTo("generate_reply") :
              NoGeminiText(calls[i]) =>
                 /\ Raised(calls[i])
                 /\ SendsAt(197) = {}
                 /\ Cardinality(SendsAt(202)) = 1
                 /\ response # OK200
        /\ \A j \in SendsAt(197) : calls[j].message # <<>>

\* the part of C21 about missing and empty texts alone
C21_MissingTextIsFailure ==
    (Handled /\ IsNewMessageWithChat(payload)) =>
        \A i \in CallsTo("generate_reply") :
            NoGeminiText(calls[i]) =>
               /\ Raised(calls[i])
               /\ SendsAt(197) = {}
               /\ Cardinality(SendsAt(202)) = 1
               /\ response # OK200

===========================================================================
